---------------------------- MODULE Spec2Model ----------------------------
(*
  A model of the finance-post ingestion backend:
    - migrations.py  : DatabaseMigration, the schema migration state machine,
                       statement by statement, over a model of an SQLite
                       connection opened by Python's sqlite3 module;
    - app.py         : the start-up sequence that runs the migration, and
                       the /api/v1/fetch-posts handler;
    - reddit_rss_client.py : RedditRSSClient, its content filter, its feed
                       parser and the fetch over the configured sources;
    - watchlist_repository.py : WatchlistRepository over the watchlist tables.
*)
EXTENDS Integers, Sequences, FiniteSets, TLC

(***************************************************************************)
(* Bounds of the model.                                                    *)
(***************************************************************************)
\* how many statements may fail (I/O error, locked file, full disk) in a behaviour
MaxFailures == 2
\* how many times the process may be started again after it stopped
MaxRestarts == 2
\* how many sources the configuration names
MaxSources == 2
\* the largest cap a caller of fetch_posts asks for
MaxCap == 3
\* how many entries a parsed document holds
MaxEntries == 2

VARIABLES
    db,         \* the database as the open connection sees it
    snap,       \* the database as of the start of the open transaction
    inTxn,      \* a transaction is open on the connection
    todo,       \* statements the running connection block has still to execute
    steps,      \* connection blocks run_migrations has still to run
    phase,      \* position of the process in its start-up
    invoker,      \* who called run_migrations: the start-up of app.py or a direct caller
    seen,       \* the version run_migrations read
    fails,      \* statements that failed so far
    restarts,   \* process restarts so far
    stepName,   \* the migration step in progress or last run
    stepState,  \* "none", "running", "failed" or "done"
    stepBegin,  \* the persisted database when that step began
    runBegin,   \* the persisted database when run_migrations was called
    ran,        \* the connection blocks this call of run_migrations has completed
    \* --- RedditRSSClient and the /api/v1/fetch-posts handler
    subreddits, \* self.subreddits, the configured sources
    feeds,      \* what each source answers while the calls run
    fpc,        \* "idle", "loop" (inside fetch_posts) or "done"
    caller,     \* who called fetch_posts: "direct" or the handler, "app"
    max_results,\* the cap fetch_posts was called with
    idx,        \* the source the loop of fetch_posts is at
    collected,  \* the posts collected so far
    requests,   \* the requests sent so far: source and limit
    result,     \* what fetch_posts returned
    response,   \* what the handler answered
    request,    \* the parameters of the request the handler got
    \* --- _parse_feed applied to two documents of one source
    psub,       \* the subreddit the documents come from
    pdocs,      \* the two documents
    pout,       \* what _parse_feed returned for the documents parsed so far
    ppc,        \* how many of the documents have been parsed
    praised,    \* for each document parsed so far: _parse_feed raised
    pnow,       \* the clock datetime.now reads
    \* --- _should_filter_post evaluated on one post
    filter_patterns, \* self.filter_patterns, the configured rules
    fpost,      \* the post under evaluation
    fdecisions, \* what the evaluations so far returned
    \* --- WatchlistRepository over the store
    foreign_keys,      \* the connections enforce foreign keys (SQLite build default)
    watchlists,        \* ids of the rows of watchlists
    watchlist_tickers, \* rows of watchlist_tickers: (watchlist_id, ticker)
    sqlite_sequence,               \* the AUTOINCREMENT sequence of watchlists
    wop                \* the last repository call and what it returned

migVars == <<db, snap, inTxn, todo, steps, phase, invoker, seen, fails, restarts,
             stepName, stepState, stepBegin, runBegin, ran>>

fetchVars == <<subreddits, feeds, fpc, caller, max_results, idx, collected, requests,
               result, response, request>>

parseVars == <<psub, pdocs, pout, ppc, praised, pnow>>

filterVars == <<filter_patterns, fpost, fdecisions>>

watchVars == <<foreign_keys, watchlists, watchlist_tickers, sqlite_sequence, wop>>

vars == <<migVars, fetchVars, parseVars, filterVars, watchVars>>

(***************************************************************************)
(* The schema objects, from the statements of migrations.py.               *)
(***************************************************************************)
VERSION_TABLE == "schema_version"
CURRENT_VERSION == 3

VersionColumns == {<<"version", "INTEGER NOT NULL">>}

PostsColumns ==
    { <<"id", "TEXT PRIMARY KEY">>, <<"reddit_id", "TEXT UNIQUE">>, <<"url", "TEXT">>,
      <<"subreddit", "TEXT">>, <<"title", "TEXT">>, <<"text", "TEXT NOT NULL">>,
      <<"author", "TEXT">>, <<"created_at", "TEXT NOT NULL">>, <<"timezone", "TEXT">>,
      <<"sentiment_label", "TEXT NOT NULL">>, <<"sentiment_score", "REAL NOT NULL">>,
      <<"sentiment_scores", "TEXT NOT NULL">>, <<"analyzed_at", "TEXT NOT NULL">> }

SectorsColumns ==
    { <<"id", "INTEGER PRIMARY KEY AUTOINCREMENT">>, <<"name", "TEXT UNIQUE NOT NULL">> }

IndustriesColumns ==
    { <<"id", "INTEGER PRIMARY KEY AUTOINCREMENT">>, <<"name", "TEXT UNIQUE NOT NULL">> }

TickersColumns ==
    { <<"id", "INTEGER PRIMARY KEY AUTOINCREMENT">>, <<"symbol", "TEXT UNIQUE NOT NULL">>,
      <<"company_name", "TEXT">>,
      <<"sector_id", "INTEGER REFERENCES sectors(id)">>,
      <<"industry_id", "INTEGER REFERENCES industries(id)">> }

PostTickersColumns ==
    { <<"post_id", "TEXT NOT NULL PK REFERENCES posts(id) ON DELETE CASCADE">>,
      <<"ticker_id", "INTEGER NOT NULL PK REFERENCES tickers(id) ON DELETE CASCADE">> }

PostIndustriesColumns ==
    { <<"post_id", "TEXT NOT NULL PK REFERENCES posts(id) ON DELETE CASCADE">>,
      <<"industry_id", "INTEGER NOT NULL PK REFERENCES industries(id) ON DELETE CASCADE">> }

PostSectorsColumns ==
    { <<"post_id", "TEXT NOT NULL PK REFERENCES posts(id) ON DELETE CASCADE">>,
      <<"sector_id", "INTEGER NOT NULL PK REFERENCES sectors(id) ON DELETE CASCADE">> }

WatchlistsColumns ==
    { <<"id", "INTEGER PRIMARY KEY AUTOINCREMENT">>, <<"name", "TEXT NOT NULL">>,
      <<"created_at", "TEXT NOT NULL DEFAULT CURRENT_TIMESTAMP">> }

WatchlistTickersColumns ==
    { <<"watchlist_id", "INTEGER NOT NULL PK REFERENCES watchlists(id) ON DELETE CASCADE">>,
      <<"ticker", "TEXT NOT NULL PK">>,
      <<"added_at", "TEXT NOT NULL DEFAULT CURRENT_TIMESTAMP">> }

(***************************************************************************)
(* Statements.  Every statement is a record [op, obj, arg].                *)
(***************************************************************************)
CreateTable(name, cols) == [op |-> "create_table", obj |-> name, arg |-> cols]
CreateIndex(name, table, col) == [op |-> "create_index", obj |-> name, arg |-> <<table, col>>]
AddColumn(col) == [op |-> "add_column", obj |-> "posts", arg |-> col]
InsertVersion(v) == [op |-> "insert_version", obj |-> VERSION_TABLE, arg |-> v]
UpdateVersion(v) == [op |-> "update_version", obj |-> VERSION_TABLE, arg |-> v]
PragmaTableInfo == [op |-> "pragma_table_info", obj |-> "posts", arg |-> 0]

\* the statements after the posts table that every schema path shares:
\* sectors, industries, tickers and the three post junction tables
EnrichmentStatements ==
    << CreateTable("sectors", SectorsColumns),
       CreateTable("industries", IndustriesColumns),
       CreateTable("tickers", TickersColumns),
       CreateIndex("idx_ticker_symbol", "tickers", "symbol"),
       CreateTable("post_tickers", PostTickersColumns),
       CreateIndex("idx_post_tickers_post", "post_tickers", "post_id"),
       CreateIndex("idx_post_tickers_ticker", "post_tickers", "ticker_id"),
       CreateTable("post_industries", PostIndustriesColumns),
       CreateIndex("idx_post_industries_post", "post_industries", "post_id"),
       CreateIndex("idx_post_industries_industry", "post_industries", "industry_id"),
       CreateTable("post_sectors", PostSectorsColumns),
       CreateIndex("idx_post_sectors_post", "post_sectors", "post_id"),
       CreateIndex("idx_post_sectors_sector", "post_sectors", "sector_id") >>

\* the version _create_base_schema inserts
BaseSchemaVersion == 2

_create_base_schema ==
    << CreateTable(VERSION_TABLE, VersionColumns),
       InsertVersion(BaseSchemaVersion),
       CreateTable("posts", PostsColumns),
       CreateIndex("idx_created_at", "posts", "created_at DESC"),
       CreateIndex("idx_sentiment_label", "posts", "sentiment_label"),
       CreateIndex("idx_subreddit", "posts", "subreddit"),
       CreateIndex("idx_url", "posts", "url") >>
    \o EnrichmentStatements

WatchlistStatements ==
    << CreateTable("watchlists", WatchlistsColumns),
       CreateTable("watchlist_tickers", WatchlistTickersColumns),
       CreateIndex("idx_watchlist_tickers_watchlist", "watchlist_tickers", "watchlist_id"),
       CreateIndex("idx_watchlist_tickers_ticker", "watchlist_tickers", "ticker") >>

\* the second connection block of _create_v3_schema
_create_v3_schema == WatchlistStatements \o << UpdateVersion(3) >>

\* _migrate_v2_to_v3 without its last statement, the version update
Mutant_migrate_v2_to_v3_NoUpdate == WatchlistStatements

\* _migrate_v2_to_v3 recording the version it started from
Mutant_migrate_v2_to_v3_Version2 == WatchlistStatements \o << UpdateVersion(2) >>

\* _migrate_v2_to_v3 touching the posts table as well
Mutant_migrate_v2_to_v3_AltersPosts ==
    << CreateIndex("idx_author", "posts", "author") >>
    \o WatchlistStatements \o << UpdateVersion(3) >>

\* _migrate_v2_to_v3 adding a version record instead of updating the one there
Mutant_migrate_v2_to_v3_Insert == WatchlistStatements \o << InsertVersion(3) >>

_migrate_v2_to_v3 == WatchlistStatements \o << UpdateVersion(3) >>

new_columns ==
    << <<"url", "TEXT">>, <<"subreddit", "TEXT">>, <<"title", "TEXT">>,
       <<"author", "TEXT">>, <<"timezone", "TEXT">>, <<"reddit_id", "TEXT">> >>


RECURSIVE AddColumnStatements(_, _)
\* the ALTER TABLE statements _migrate_v1_to_v2 issues for the columns that
\* PRAGMA table_info(posts) did not report
AddColumnStatements(cols, present) ==
    IF cols = <<>> THEN <<>>
    ELSE (IF Head(cols)[1] \in present THEN <<>> ELSE << AddColumn(Head(cols)) >>)
         \o AddColumnStatements(Tail(cols), present)

(***************************************************************************)
(* The database: tables (name, columns), indexes (name, table, column) and *)
(* the rows of schema_version.                                             *)
(***************************************************************************)
HasTable(d, name) == \E t \in d.tables : t[1] = name
HasIndex(d, name) == \E i \in d.indexes : i[1] = name
ColumnsOf(d, name) == IF HasTable(d, name) THEN (CHOOSE t \in d.tables : t[1] = name)[2] ELSE {}
ColumnNames(d, name) == { c[1] : c \in ColumnsOf(d, name) }

\* the statement raises in state d whatever the environment does
\* (no such table, duplicate column name)
Raises(d, s) ==
    CASE s.op = "create_index" -> ~HasIndex(d, s.obj) /\ ~HasTable(d, s.arg[1])
      [] s.op = "add_column" -> ~HasTable(d, s.obj) \/ s.arg[1] \in ColumnNames(d, s.obj)
      [] s.op \in {"insert_version", "update_version"} -> ~HasTable(d, s.obj)
      [] OTHER -> FALSE

\* the effect of one statement that succeeds
Apply(d, s) ==
    CASE s.op = "create_table" ->
            IF HasTable(d, s.obj) THEN d
            ELSE [d EXCEPT !.tables = @ \cup { <<s.obj, s.arg>> }]
      [] s.op = "create_index" ->
            IF HasIndex(d, s.obj) THEN d
            ELSE [d EXCEPT !.indexes = @ \cup { <<s.obj, s.arg[1], s.arg[2]>> }]
      [] s.op = "add_column" ->
            [d EXCEPT !.tables = { IF t[1] = s.obj THEN <<t[1], t[2] \cup {s.arg}>> ELSE t
                                   : t \in @ }]
      [] s.op = "insert_version" -> [d EXCEPT !.rows = Append(@, s.arg)]
      [] s.op = "update_version" -> [d EXCEPT !.rows = [i \in DOMAIN @ |-> s.arg]]
      [] OTHER -> d

RECURSIVE ApplyAll(_, _)
ApplyAll(d, stmts) ==
    IF stmts = <<>> THEN d ELSE ApplyAll(Apply(d, Head(stmts)), Tail(stmts))

\* Python's sqlite3 opens a transaction before INSERT/UPDATE/DELETE/REPLACE only;
\* any other statement outside a transaction is committed as it executes
OpensTransaction(s) == s.op \in {"insert_version", "update_version"}

_migrate_v1_to_v2(d) ==
    << PragmaTableInfo >>
    \o AddColumnStatements(new_columns, ColumnNames(d, "posts"))
    \o EnrichmentStatements
    \o << CreateIndex("idx_subreddit", "posts", "subreddit"),
          CreateIndex("idx_url", "posts", "url"),
          UpdateVersion(CURRENT_VERSION) >>

get_current_version(d) ==
    IF ~HasTable(d, VERSION_TABLE) THEN 0
    ELSE IF d.rows = <<>> THEN 0 ELSE d.rows[1]

needs_migration(d) == get_current_version(d) < CURRENT_VERSION

\* the connection blocks run_migrations runs for the version it read;
\* "first" marks the block that begins a migration step
run_migrations(v) ==
    CASE v = 0 -> << [fn |-> "_create_base_schema", step |-> "0->3", first |-> TRUE],
                     [fn |-> "_create_v3_schema", step |-> "0->3", first |-> FALSE] >>
      [] v = 1 -> << [fn |-> "_migrate_v1_to_v2", step |-> "1->2", first |-> TRUE],
                     [fn |-> "_migrate_v2_to_v3", step |-> "2->3", first |-> TRUE] >>
      [] v = 2 -> << [fn |-> "_migrate_v2_to_v3", step |-> "2->3", first |-> TRUE] >>
      [] OTHER -> <<>>

\* run_migrations raises "Unknown database version"
UnknownVersion(v) == v \notin {0, 1, 2, CURRENT_VERSION}

StatementsOf(fn, d) ==
    CASE fn = "_create_base_schema" -> _create_base_schema
      [] fn = "_create_v3_schema" -> _create_v3_schema
      [] fn = "_migrate_v1_to_v2" -> _migrate_v1_to_v2(d)
      [] fn = "_migrate_v2_to_v3" -> _migrate_v2_to_v3

(***************************************************************************)
(* The stores a process can find when it starts.                           *)
(***************************************************************************)
FreshStore == [tables |-> {}, indexes |-> {}, rows |-> <<>>]

\* what _create_base_schema and _create_v3_schema build on a fresh store
BaseStore == ApplyAll(FreshStore, _create_base_schema)
FullStore == ApplyAll(BaseStore, _create_v3_schema)

\* the legacy store _migrate_v1_to_v2 upgrades: a posts table without the
\* columns the migration adds, the two indexes the migration does not create,
\* and version 1
LegacyStore(dir) ==
    [tables |-> { <<VERSION_TABLE, VersionColumns>>,
                  <<"posts", { c \in PostsColumns :
                               \A i \in DOMAIN new_columns : new_columns[i][1] # c[1] }>> },
     indexes |-> { <<"idx_created_at", "posts", dir>>,
                   <<"idx_sentiment_label", "posts", "sentiment_label">> },
     rows |-> <<1>>]

\* a full store whose version record holds a version this release does not know
ForeignStore(v) == [FullStore EXCEPT !.rows = <<v>>]

InitialStores ==
    { FreshStore, BaseStore, FullStore,
      LegacyStore("created_at"), LegacyStore("created_at DESC"),
      ForeignStore(4), ForeignStore(-1) }

\* what has been committed
Persisted == IF inTxn THEN snap ELSE db
SchemaOf(d) == [tables |-> d.tables, indexes |-> d.indexes]


(***************************************************************************)
(* Start-up of app.py and the migration run.                               *)
(*   phase: "boot"     the process starts (app.py:41-44)                   *)
(*          "run"      run_migrations has been called                      *)
(*          "between"  run_migrations is between two connection blocks     *)
(*          "block"    a connection block is executing its statements      *)
(*          "ready"    app.py went on to initialise its components         *)
(*          "fatal"    an exception ended the start-up                     *)
(*          "returned" / "raised"  outcome of a direct call                *)
(***************************************************************************)
Stopped == phase \in {"ready", "fatal", "returned", "raised"}

ReturnPhase == IF invoker = "app" THEN "ready" ELSE "returned"
RaisePhase == IF invoker = "app" THEN "fatal" ELSE "raised"

MigInit ==
    /\ db \in InitialStores
    /\ snap = db
    /\ inTxn = FALSE
    /\ todo = <<>>
    /\ steps = <<>>
    /\ invoker \in {"app", "direct"}
    /\ phase = IF invoker = "app" THEN "boot" ELSE "run"
    /\ seen = 0
    /\ fails = 0
    /\ restarts = 0
    /\ stepName = "none"
    /\ stepState = "none"
    /\ stepBegin = db
    /\ runBegin = db
    /\ ran = <<>>

\* the start-up going on to the components without looking at the store
Mutant_Startup_NoMigration ==
    /\ phase = "boot"
    /\ seen' = get_current_version(db)
    /\ phase' = "ready"
    /\ UNCHANGED <<fetchVars, parseVars, filterVars, watchVars>>
    /\ UNCHANGED <<db, snap, inTxn, todo, steps, invoker, fails, restarts,
                   stepName, stepState, stepBegin, runBegin, ran>>

\* app.py:43-48: run the migration only when needs_migration says so
Startup ==
    /\ phase = "boot"
    /\ seen' = get_current_version(db)
    /\ phase' = IF needs_migration(db) THEN "run" ELSE "ready"
    /\ UNCHANGED <<fetchVars, parseVars, filterVars, watchVars>>
    /\ UNCHANGED <<db, snap, inTxn, todo, steps, invoker, fails, restarts,
                   stepName, stepState, stepBegin, runBegin, ran>>

\* migrations.py:68-87: read the version and pick the branch
RunMigrations ==
    /\ phase = "run"
    /\ LET v == get_current_version(db) IN
        /\ seen' = v
        /\ steps' = run_migrations(v)
        /\ phase' = IF UnknownVersion(v) THEN RaisePhase
                    ELSE IF v = CURRENT_VERSION THEN ReturnPhase
                    ELSE "between"
    /\ runBegin' = db
    /\ ran' = <<>>
    /\ UNCHANGED <<fetchVars, parseVars, filterVars, watchVars>>
    /\ UNCHANGED <<db, snap, inTxn, todo, invoker, fails, restarts,
                   stepName, stepState, stepBegin>>

\* enter the next "with self._get_connection() as conn" block
OpenBlock ==
    /\ phase = "between"
    /\ steps # <<>>
    /\ todo' = StatementsOf(Head(steps).fn, db)
    /\ phase' = "block"
    /\ stepName' = Head(steps).step
    /\ stepState' = "running"
    /\ stepBegin' = IF Head(steps).first THEN db ELSE stepBegin
    /\ UNCHANGED <<fetchVars, parseVars, filterVars, watchVars>>
    /\ UNCHANGED <<db, snap, inTxn, steps, invoker, seen, fails, restarts, runBegin, ran>>

\* cursor.execute succeeds
Execute ==
    /\ phase = "block"
    /\ todo # <<>>
    /\ LET s == Head(todo) IN
        /\ ~Raises(db, s)
        /\ db' = Apply(db, s)
        /\ inTxn' = (inTxn \/ OpensTransaction(s))
        /\ snap' = IF ~inTxn /\ OpensTransaction(s) THEN db ELSE snap
    /\ todo' = Tail(todo)
    /\ UNCHANGED <<fetchVars, parseVars, filterVars, watchVars>>
    /\ UNCHANGED <<steps, phase, invoker, seen, fails, restarts,
                   stepName, stepState, stepBegin, runBegin, ran>>

\* cursor.execute raises: _get_connection rolls back and re-raises, the
\* exception leaves run_migrations
ExecuteFails ==
    /\ phase = "block"
    /\ todo # <<>>
    /\ Raises(db, Head(todo)) \/ fails < MaxFailures
    /\ fails' = IF Raises(db, Head(todo)) THEN fails ELSE fails + 1
    /\ db' = Persisted
    /\ snap' = Persisted
    /\ inTxn' = FALSE
    /\ todo' = <<>>
    /\ steps' = <<>>
    /\ phase' = RaisePhase
    /\ stepState' = "failed"
    /\ UNCHANGED <<fetchVars, parseVars, filterVars, watchVars>>
    /\ UNCHANGED <<invoker, seen, restarts, stepName, stepBegin, runBegin, ran>>

\* the block ends: conn.commit()
Commit ==
    /\ phase = "block"
    /\ todo = <<>>
    /\ inTxn' = FALSE
    /\ snap' = db
    /\ ran' = Append(ran, Head(steps).fn)
    /\ steps' = Tail(steps)
    /\ phase' = "between"
    /\ stepState' = IF Tail(steps) # <<>> /\ ~Head(Tail(steps)).first
                    THEN "running" ELSE "done"
    /\ UNCHANGED <<fetchVars, parseVars, filterVars, watchVars>>
    /\ UNCHANGED <<db, todo, invoker, seen, fails, restarts, stepName, stepBegin, runBegin>>

\* run_migrations returns
Return ==
    /\ phase = "between"
    /\ steps = <<>>
    /\ phase' = ReturnPhase
    /\ UNCHANGED <<fetchVars, parseVars, filterVars, watchVars>>
    /\ UNCHANGED <<db, snap, inTxn, todo, steps, invoker, seen, fails, restarts,
                   stepName, stepState, stepBegin, runBegin, ran>>

\* the process is started again (or run_migrations is called again) on the
\* store the previous run left
Restart ==
    /\ Stopped
    /\ restarts < MaxRestarts
    /\ restarts' = restarts + 1
    /\ \E e \in {"app", "direct"} :
        /\ invoker' = e
        /\ phase' = IF e = "app" THEN "boot" ELSE "run"
    /\ stepName' = "none"
    /\ stepState' = "none"
    /\ stepBegin' = db
    /\ runBegin' = db
    /\ ran' = <<>>
    /\ UNCHANGED <<fetchVars, parseVars, filterVars, watchVars>>
    /\ UNCHANGED <<db, snap, inTxn, todo, steps, seen, fails>>

MigNext ==
    \/ Startup
    \/ RunMigrations
    \/ OpenBlock
    \/ Execute
    \/ ExecuteFails
    \/ Commit
    \/ Return
    \/ Restart



(***************************************************************************)
(* reddit_rss_client.py.  Text is a sequence of one-character strings; an  *)
(* id or URL is the sequence of its "/"-separated segments.                *)
(***************************************************************************)
UpperCase == <<"A", "B", "C", "D", "E", "F", "G", "H", "I", "J", "K", "L", "M", "N", "O", "P", "Q", "R", "S", "T", "U", "V", "W", "X", "Y", "Z">>
LowerCase == <<"a", "b", "c", "d", "e", "f", "g", "h", "i", "j", "k", "l", "m", "n", "o", "p", "q", "r", "s", "t", "u", "v", "w", "x", "y", "z">>

\* str.lower, one character
LowerChar(c) ==
    IF \E i \in DOMAIN UpperCase : UpperCase[i] = c
    THEN LowerCase[CHOOSE i \in DOMAIN UpperCase : UpperCase[i] = c]
    ELSE c

\* str.lower
Lower(t) == [i \in DOMAIN t |-> LowerChar(t[i])]

\* literal lit occurs in t at position i
OccursAt(t, lit, i) ==
    /\ i >= 1
    /\ i + Len(lit) - 1 <= Len(t)
    /\ \A k \in 1..Len(lit) : t[i + k - 1] = lit[k]

\* "lit in t" of Python
Contains(t, lit) == \E i \in 1..(Len(t) + 1) : OccursAt(t, lit, i)

\* the default exclude_titles: each regular expression is a list of literals
\* joined by ".*"
exclude_titles ==
    << << <<"d", "a", "i", "l", "y">>, <<"d", "i", "s", "c", "u", "s", "s", "i", "o", "n">> >>,
       << <<"g", "e", "n", "e", "r", "a", "l">>, <<"d", "i", "s", "c", "u", "s", "s", "i", "o", "n">> >>,
       << <<"a", "d", "v", "i", "c", "e">>, <<"t", "h", "r", "e", "a", "d">> >>,
       << <<"w", "h", "a", "t">>, <<"a", "r", "e">>, <<"y", "o", "u", "r">>, <<"m", "o", "v", "e", "s">> >>,
       << <<"w", "e", "e", "k", "e", "n", "d">>, <<"d", "i", "s", "c", "u", "s", "s", "i", "o", "n">> >>,
       << <<"d", "i", "s", "c", "u", "s", "s", "i", "o", "n">>, <<"t", "h", "r", "e", "a", "d">> >>,
       << <<"d", "a", "i", "l", "y">>, <<"t", "h", "r", "e", "a", "d">> >> >>

\* the default exclude_keywords
exclude_keywords ==
    << <<"w", "h", "i", "c", "h", " ", "n", "i", "c", "h", "e">>,
       <<"w", "a", "n", "t", "e", "d", " ", "t", "o", " ", "t", "a", "l", "k", " ", "t", "o", " ", "b", "u", "t">>,
       <<"c", "a", "r", "e", "e", "r", " ", "a", "d", "v", "i", "c", "e">>,
       <<"n", "e", "t", "w", "o", "r", "k", "i", "n", "g">>,
       <<"s", "h", "o", "u", "l", "d", " ", "i">>,
       <<"h", "o", "w", " ", "d", "o", " ", "i", " ", "b", "e", "c", "o", "m", "e">>,
       <<"r", "e", "s", "u", "m", "e">>,
       <<"j", "o", "b", " ", "i", "n", "t", "e", "r", "v", "i", "e", "w">> >>

RECURSIVE MatchFrom(_, _, _, _)
\* the literals lits occur in t in this order from position from on; between
\* two of them ".*" matches any characters but a newline
MatchFrom(lits, t, from, isFirst) ==
    IF lits = <<>> THEN TRUE
    ELSE \E j \in from..(Len(t) + 1) :
            /\ OccursAt(t, Lower(Head(lits)), j)
            /\ isFirst \/ \A k \in from..(j - 1) : t[k] # "\n"
            /\ MatchFrom(Tail(lits), t, j + Len(Head(lits)), FALSE)

\* re.search(pattern, title_lower, re.IGNORECASE)
ReSearch(pattern, t) == MatchFrom(pattern, Lower(t), 1, TRUE)

\* reddit_rss_client.py:22-42: the rules taken when the configuration names none
DefaultFilterPatterns ==
    [exclude_titles |-> exclude_titles, exclude_keywords |-> exclude_keywords]

\* the rule configurations config.json can give: none (the defaults), rules of
\* its own, and a filter_patterns object without the two keys
FilterConfigurations ==
    { DefaultFilterPatterns,
      [exclude_titles |-> << << <<"e", "a", "r", "n", "i", "n", "g", "s">> >> >>, exclude_keywords |-> << <<"B", "u", "y", " ", "N", "o", "w">> >>],
      [exclude_titles |-> <<>>, exclude_keywords |-> <<>>] }

\* the title patterns matched against title and text instead of the title only
Mutant_should_filter_post_AnyText(title, text) ==
    LET title_lower == Lower(title)
        text_lower == Lower(text)
        combined == title_lower \o << " " >> \o text_lower
    IN  \/ \E i \in DOMAIN filter_patterns.exclude_titles :
               ReSearch(filter_patterns.exclude_titles[i], combined)
        \/ \E i \in DOMAIN filter_patterns.exclude_keywords :
               Contains(combined, Lower(filter_patterns.exclude_keywords[i]))

_should_filter_post(title, text) ==
    LET title_lower == Lower(title)
        text_lower == Lower(text)
        combined == title_lower \o << " " >> \o text_lower
    IN  \/ \E i \in DOMAIN filter_patterns.exclude_titles :
               ReSearch(filter_patterns.exclude_titles[i], title_lower)
        \/ \E i \in DOMAIN filter_patterns.exclude_keywords :
               Contains(combined, Lower(filter_patterns.exclude_keywords[i]))


\* the character references html.unescape decodes here: (reference, character)
CharacterReferences ==
    << << <<"&", "a", "m", "p", ";">>, "&" >>, << <<"&", "l", "t", ";">>, "<" >>,
       << <<"&", "g", "t", ";">>, ">" >>, << <<"&", "q", "u", "o", "t", ";">>, "\"" >> >>

RECURSIVE Unescape(_)
\* html.unescape
Unescape(t) ==
    IF t = <<>> THEN <<>>
    ELSE IF \E r \in DOMAIN CharacterReferences : OccursAt(t, CharacterReferences[r][1], 1)
    THEN LET r == CHOOSE r \in DOMAIN CharacterReferences :
                      OccursAt(t, CharacterReferences[r][1], 1)
         IN << CharacterReferences[r][2] >>
            \o Unescape(SubSeq(t, Len(CharacterReferences[r][1]) + 1, Len(t)))
    ELSE << Head(t) >> \o Unescape(Tail(t))

Whitespace == {" ", "\n", "\t"}

RECURSIVE Strip(_)
\* str.strip
Strip(t) ==
    IF t = <<>> THEN <<>>
    ELSE IF Head(t) \in Whitespace THEN Strip(Tail(t))
    ELSE IF t[Len(t)] \in Whitespace THEN Strip(SubSeq(t, 1, Len(t) - 1))
    ELSE t

Digit == << "0", "1", "2", "3", "4", "5", "6", "7", "8", "9" >>

RECURSIVE Str(_)
\* the decimal digits of a natural number, as f"{n}" formats it
Str(n) == IF n < 10 THEN Digit[n + 1] ELSE Str(n \div 10) \o Digit[(n % 10) + 1]

RECURSIVE Join(_)
\* the string whose split('/') is segs
Join(segs) ==
    IF Len(segs) = 1 THEN segs[1]
    ELSE Join(SubSeq(segs, 1, Len(segs) - 1)) \o "/" \o segs[Len(segs)]

\* the segments of the empty string (and of a missing text, which is also falsy)
EmptyString == << "" >>

RECURSIVE Mutant_LastQualifying_First(_, _)
\* the first qualifying part instead of the last
Mutant_LastQualifying_First(parts, subreddit) ==
    IF parts = <<>> THEN ""
    ELSE IF Head(parts) # "" /\ Head(parts) \notin {"comments", "r", subreddit} THEN Head(parts)
    ELSE Mutant_LastQualifying_First(Tail(parts), subreddit)

RECURSIVE LastQualifying(_, _)
\* reddit_rss_client.py:214-218: the last part that is non-empty and neither
\* "comments", "r" nor the subreddit; "" when there is none
LastQualifying(parts, subreddit) ==
    IF parts = <<>> THEN ""
    ELSE LET part == parts[Len(parts)] IN
         IF part # "" /\ part \notin {"comments", "r", subreddit} THEN part
         ELSE LastQualifying(SubSeq(parts, 1, Len(parts) - 1), subreddit)

\* reddit_rss_client.py:201-202: the href of the link element, '' without one
UrlOf(entry) == IF entry.link.elem THEN entry.link.segs ELSE EmptyString

\* reddit_rss_client.py:208: the text of the id element, else the URL
RawId(entry) == IF entry.id.elem THEN entry.id.segs ELSE UrlOf(entry)

\* the placeholder taken when a reddit id was found instead of when none was
Mutant_RedditId_Inverted(entry, subreddit, n) ==
    LET raw_id == RawId(entry)
        reddit_id == IF raw_id # EmptyString THEN LastQualifying(raw_id, subreddit) ELSE ""
    IN  IF reddit_id # "" THEN "post_" \o Str(n) ELSE reddit_id

\* reddit_rss_client.py:211-221: the reddit id of the entry that is parsed
\* when n results have been collected
RedditId(entry, subreddit, n) ==
    LET raw_id == RawId(entry)
        reddit_id == IF raw_id # EmptyString THEN LastQualifying(raw_id, subreddit) ELSE ""
    IN  IF reddit_id = "" THEN "post_" \o Str(n) ELSE reddit_id

\* a timestamp text: ISO-8601 or not, its date and time, and its offset
\* ("" when it has none)
Timestamp(local, offset) == [iso |-> TRUE, local |-> local, offset |-> offset]
Unparsable(text) == [iso |-> FALSE, local |-> text, offset |-> ""]
\* the text of an element without text (None)
NoText == [iso |-> FALSE, local |-> "", offset |-> ""]

\* the offsets dateutil's isoparse reads as tz.UTC
UtcOffsets == {"Z", "+00:00"}

\* datetime.now(tz.UTC).isoformat()
ClockText(now) == "T" \o Str(now) \o "+00:00"

\* dt.tzname(): "UTC" for tz.UTC, None ("") for the tzoffset of any other offset
TzName(offset) == IF offset = "" \/ offset \in UtcOffsets THEN "UTC" ELSE ""

\* the timestamp recorded as written, without the UTC default
Mutant_parse_timestamp_NaiveUnlabelled(ts, now) ==
    IF ts.iso
    THEN [created_at |-> ts.local \o ts.offset, timezone |-> ts.offset]
    ELSE [created_at |-> ClockText(now), timezone |-> "UTC"]

\* reddit_rss_client.py:122-145
_parse_timestamp_with_timezone(ts, now) ==
    IF ts.iso
    THEN [created_at |-> ts.local \o (IF ts.offset = "" \/ ts.offset \in UtcOffsets
                                      THEN "+00:00" ELSE ts.offset),
          timezone |-> IF TzName(ts.offset) # "" THEN TzName(ts.offset) ELSE "UTC"]
    ELSE [created_at |-> ClockText(now), timezone |-> "UTC"]

\* reddit_rss_client.py:191-192: the text of updated, else of published, else None
CreatedStr(entry) ==
    IF entry.updated.elem /\ entry.updated.text.local # "" THEN entry.updated.text
    ELSE IF entry.published.elem /\ entry.published.text.local # "" THEN entry.published.text
    ELSE NoText

\* reddit_rss_client.py:194-199
CreatedOf(entry, now) ==
    IF CreatedStr(entry).local # ""
    THEN _parse_timestamp_with_timezone(CreatedStr(entry), now)
    ELSE [created_at |-> ClockText(now), timezone |-> "UTC"]

NoContent == <<"(", "n", "o", " ", "c", "o", "n", "t", "e", "n", "t", ")">>

\* reddit_rss_client.py:176-188: title, summary and the text built from them
TitleOf(entry) == Unescape(entry.title)
SummaryOf(entry) == Unescape(entry.summary)
TextOf(entry) ==
    LET title == Strip(TitleOf(entry))
        summary == Strip(SummaryOf(entry))
    IN  IF title # <<>> /\ summary # <<>> THEN title \o << "\n", "\n" >> \o summary
        ELSE IF title # <<>> THEN title
        ELSE IF summary # <<>> THEN summary
        ELSE NoContent

\* reddit_rss_client.py:166-238: the post built from one entry
PostOf(entry, subreddit, n) ==
    [ id |-> "reddit_" \o RedditId(entry, subreddit, n),
      reddit_id |-> RedditId(entry, subreddit, n),
      url |-> Join(UrlOf(entry)),
      subreddit |-> subreddit,
      title |-> TitleOf(entry),
      text |-> TextOf(entry),
      author |-> IF entry.author.elem THEN entry.author.name ELSE "unknown",
      created_at |-> CreatedOf(entry, pnow).created_at,
      timezone |-> CreatedOf(entry, pnow).timezone ]

RECURSIVE ParseEntries(_, _, _)
ParseEntries(entries, subreddit, results) ==
    IF entries = <<>> THEN results
    ELSE ParseEntries(Tail(entries), subreddit,
                      Append(results, PostOf(Head(entries), subreddit, Len(results))))

\* reddit_rss_client.py:159-162: ET.fromstring raises LookupError, which is no
\* ET.ParseError, for a document that declares an encoding Python does not know
ParseFeedRaises(content) == ~content.known_encoding

\* a feed document: wellformed says whether ET.fromstring parses it
_parse_feed(content, subreddit) ==
    IF ~content.wellformed THEN <<>>
    ELSE ParseEntries(content.entries, subreddit, <<>>)

(***************************************************************************)
(* Feed entries, documents and responses the sources can give.             *)
(***************************************************************************)
Elem(segs) == [elem |-> TRUE, segs |-> segs]
NoElem == [elem |-> FALSE, segs |-> EmptyString]
Author(name) == [elem |-> TRUE, name |-> name]
NoAuthor == [elem |-> FALSE, name |-> ""]
\* an author name element without text: its text is None, written None here
EmptyAuthor == [elem |-> TRUE, name |-> "None"]
TimeElem(text) == [elem |-> TRUE, text |-> text]
EmptyTimeElem == [elem |-> TRUE, text |-> NoText]
NoTimeElem == [elem |-> FALSE, text |-> NoText]

\* an entry with a native id that passes the filter
EntryKept ==
    [ title |-> <<"A", "A", "P", "L", " ", "u", "p">>, summary |-> <<>>,
      id |-> Elem(<< "t3_a" >>),
      link |-> Elem(<< "https:", "", "www.reddit.com", "r", "stocks", "comments", "a", "" >>),
      author |-> Author("u1"),
      updated |-> TimeElem(Timestamp("2024-01-01T10:00:00", "+00:00")),
      published |-> NoTimeElem ]

\* an entry a title pattern excludes
EntryDaily ==
    [ title |-> <<"D", "a", "i", "l", "y", " ", "D", "i", "s", "c", "u", "s", "s", "i", "o", "n">>, summary |-> <<"c", "h", "a", "t">>,
      id |-> Elem(<< "t3_d" >>), link |-> NoElem, author |-> Author("mod"),
      updated |-> NoTimeElem, published |-> NoTimeElem ]

\* an entry a keyword excludes
EntryCareer ==
    [ title |-> <<"J", "o", "b", "s">>, summary |-> <<"m", "y", " ", "R", "e", "s", "u", "m", "e">>,
      id |-> Elem(<< "t3_r" >>), link |-> NoElem, author |-> NoAuthor,
      updated |-> NoTimeElem, published |-> NoTimeElem ]

\* an entry without id and link, which passes the filter
EntryBare ==
    [ title |-> <<"P", "&", "a", "m", "p", ";", "L">>, summary |-> <<" ", "u", "p", " ">>,
      id |-> NoElem, link |-> NoElem, author |-> Author("u2"),
      updated |-> NoTimeElem, published |-> TimeElem(Timestamp("2024-01-02T08:30:00", "")) ]

Document(entries) == [wellformed |-> TRUE, known_encoding |-> TRUE, entries |-> entries]
MalformedDocument == [wellformed |-> FALSE, known_encoding |-> TRUE, entries |-> <<>>]
\* a document whose XML declaration names an encoding Python does not know
UnknownEncodingDocument == [wellformed |-> FALSE, known_encoding |-> FALSE, entries |-> <<>>]

Documents ==
    { Document(<<>>), Document(<< EntryKept >>), Document(<< EntryDaily >>),
      Document(<< EntryKept, EntryBare >>), Document(<< EntryDaily, EntryKept >>),
      Document(<< EntryCareer, EntryBare, EntryKept >>), MalformedDocument,
      UnknownEncodingDocument }

\* what a request to a source ends in: requests.get raises, raise_for_status
\* raises, or a document arrives
Responses ==
    { [status |-> "network_error", content |-> MalformedDocument],
      [status |-> "http_error", content |-> MalformedDocument] }
    \cup { [status |-> "ok", content |-> d] : d \in Documents }

Failed(resp) == resp.status # "ok"

(***************************************************************************)
(* RedditRSSClient.fetch_posts                                             *)
(***************************************************************************)
Max(a, b) == IF a >= b THEN a ELSE b
Min(a, b) == IF a <= b THEN a ELSE b

SubredditNames == << "stocks", "investing", "wallstreetbets", "finance" >>
DefaultSources == << "stocks", "investing" >>

\* the largest limit a request carries
MaxPerSub == 50

\* reddit_rss_client.py:91
per_sub_limit(cap, subs) ==
    Max(1, Min(MaxPerSub, (cap \div Max(Len(subs), 1)) + 1))

\* reddit_rss_client.py:93: "self.subreddits or ['stocks', 'investing']"
SourceList(subs) == IF subs # <<>> THEN subs ELSE DefaultSources

\* the loop of fetch_posts without its filter
Mutant_KeepPost_Unfiltered(post) == TRUE

\* reddit_rss_client.py:110-111: the post is kept
KeepPost(post) == ~_should_filter_post(post.title, post.text)

RECURSIVE Collect(_, _, _)
\* reddit_rss_client.py:108-115: the loop over the posts of one source
Collect(posts, acc, cap) ==
    IF posts = <<>> THEN acc
    ELSE IF ~KeepPost(Head(posts)) THEN Collect(Tail(posts), acc, cap)
    ELSE IF Len(acc) >= cap THEN acc
    ELSE Collect(Tail(posts), Append(acc, Head(posts)), cap)

\* reddit_rss_client.py:120: collected[:max_results]
Slice(seq, n) == SubSeq(seq, 1, Min(Len(seq), Max(n, 0)))

\* the caps a caller asks for
Caps == (-1)..MaxCap

IsDigit(c) == \E d \in DOMAIN Digit : Digit[d] = c
DigitValue(c) == (CHOOSE d \in DOMAIN Digit : Digit[d] = c) - 1

RECURSIVE DigitsValue(_)
DigitsValue(t) ==
    IF t = <<>> THEN 0 ELSE 10 * DigitsValue(SubSeq(t, 1, Len(t) - 1)) + DigitValue(t[Len(t)])

\* int(text): an optional sign and decimal digits, else ValueError
ParseInt(text) ==
    LET t == Strip(text)
        signed == t # <<>> /\ Head(t) \in {"-", "+"}
        digits == IF signed THEN Tail(t) ELSE t
    IN  IF digits = <<>> \/ \E k \in DOMAIN digits : ~IsDigit(digits[k])
        THEN [ok |-> FALSE, value |-> 0]
        ELSE [ok |-> TRUE,
              value |-> IF signed /\ Head(t) = "-" THEN 0 - DigitsValue(digits)
                        ELSE DigitsValue(digits)]

\* app.py:100-105
MaxResultsLimit == 500
DefaultMaxResults == 100

\* the parsed cap passed on as the caller wrote it
Mutant_ValidatedMaxResults_Unclamped(param) ==
    IF ParseInt(param).ok THEN ParseInt(param).value ELSE DefaultMaxResults

ValidatedMaxResults(param) ==
    IF ParseInt(param).ok THEN Max(1, Min(ParseInt(param).value, MaxResultsLimit))
    ELSE DefaultMaxResults

\* the max_results parameters a request carries
MaxResultsParams == { <<"2">>, <<"0">>, <<"-", "1">>, <<"a", "b", "c">> }

\* the start_date / end_date parameters a request carries; "" is an absent one
DateParams == { "", "2024-01-01", "yesterday" }

\* api_utils.validate_date_param raises ValueError for a parameter that is
\* present and no date
DateIsInvalid(param) == param \notin {"", "2024-01-01"}

\* positional parameters fetch_posts accepts (query, max_results) and
\* positional arguments the handler passes (query, max_results, start_date, end_date)
FetchPostsParameters == 2
HandlerCallArguments == 4

\* Python binds the call, or raises TypeError
CallBinds(arguments) == arguments <= FetchPostsParameters

NoResponse == [code |-> "none", status |-> 0, count |-> 0]
ErrorResponse(code, status) == [code |-> code, status |-> status, count |-> 0]
SuccessResponse(posts) == [code |-> "ok", status |-> 200, count |-> Len(posts)]

NoRequest == [max_results |-> <<>>, start_date |-> "", end_date |-> ""]

FetchIdle ==
    /\ fpc = "idle"
    /\ caller = "none"
    /\ max_results = 0
    /\ idx = 0
    /\ collected = <<>>
    /\ requests = <<>>
    /\ result = <<>>
    /\ response = NoResponse
    /\ request = NoRequest

FetchInit ==
    /\ \E n \in 0..MaxSources : subreddits = SubSeq(SubredditNames, 1, n)
    /\ feeds \in [{ SourceList(subreddits)[k] : k \in DOMAIN SourceList(subreddits) } -> Responses]
    /\ FetchIdle

\* somebody calls reddit_client.fetch_posts(query, max_results)
\* (reddit_rss_client.py:82-91)
ClientCall ==
    /\ fpc = "idle"
    /\ \E cap \in Caps :
        /\ max_results' = cap
        /\ fpc' = IF cap <= 0 THEN "done" ELSE "loop"
    /\ caller' = "direct"
    /\ idx' = 1
    /\ collected' = <<>>
    /\ requests' = <<>>
    /\ result' = <<>>
    /\ UNCHANGED <<subreddits, feeds, response, request>>
    /\ UNCHANGED <<migVars, parseVars, filterVars, watchVars>>

\* GET /api/v1/fetch-posts up to the call of reddit_client.fetch_posts
\* (app.py:94-115, 170-174); the route exists once the start-up (app.py:41-59)
\* is through
HandlerRequest ==
    /\ phase = "ready"
    /\ fpc = "idle"
    /\ \E mr \in MaxResultsParams, sd \in DateParams, ed \in DateParams :
        /\ request' = [max_results |-> mr, start_date |-> sd, end_date |-> ed]
        /\ max_results' = ValidatedMaxResults(mr)
        /\ IF DateIsInvalid(sd) \/ DateIsInvalid(ed)
           THEN /\ response' = ErrorResponse("INVALID_PARAM", 400)
                /\ fpc' = "done"
           ELSE IF ~CallBinds(HandlerCallArguments)
           THEN /\ response' = ErrorResponse("FETCH_ERROR", 500)
                /\ fpc' = "done"
           ELSE /\ response' = NoResponse
                /\ fpc' = "loop"
    /\ caller' = "app"
    /\ idx' = 1
    /\ collected' = <<>>
    /\ requests' = <<>>
    /\ result' = <<>>
    /\ UNCHANGED <<subreddits, feeds>>
    /\ UNCHANGED <<migVars, parseVars, filterVars, watchVars>>

\* the loop going on to the next source although the cap has been reached
Mutant_FetchSource_NoEarlyExit ==
    /\ fpc = "loop"
    /\ idx <= Len(SourceList(subreddits))
    /\ LET sub == SourceList(subreddits)[idx]
           resp == feeds[sub]
       IN  /\ requests' = Append(requests, [sub |-> sub,
                                            limit |-> per_sub_limit(max_results, subreddits)])
           /\ collected' = IF Failed(resp) \/ ParseFeedRaises(resp.content) THEN collected
                           ELSE Collect(_parse_feed(resp.content, sub), collected, max_results)
    /\ idx' = idx + 1
    /\ UNCHANGED <<subreddits, feeds, fpc, caller, max_results, result, response,
                   request>>
    /\ UNCHANGED <<migVars, parseVars, filterVars, watchVars>>

\* one pass of the loop over the sources (reddit_rss_client.py:93-118):
\* request, parse, filter, collect; a request that fails, or a document that
\* makes _parse_feed raise, is skipped
FetchSource ==
    /\ fpc = "loop"
    /\ idx <= Len(SourceList(subreddits))
    /\ Len(collected) < max_results
    /\ LET sub == SourceList(subreddits)[idx]
           resp == feeds[sub]
       IN  /\ requests' = Append(requests, [sub |-> sub,
                                            limit |-> per_sub_limit(max_results, subreddits)])
           /\ collected' = IF Failed(resp) \/ ParseFeedRaises(resp.content) THEN collected
                           ELSE Collect(_parse_feed(resp.content, sub), collected, max_results)
    /\ idx' = idx + 1
    /\ UNCHANGED <<subreddits, feeds, fpc, caller, max_results, result, response,
                   request>>
    /\ UNCHANGED <<migVars, parseVars, filterVars, watchVars>>

\* the loop ends, fetch_posts returns (reddit_rss_client.py:94-95, 120); the
\* handler goes through the posts and answers (app.py:116-169)
FetchReturn ==
    /\ fpc = "loop"
    /\ idx > Len(SourceList(subreddits)) \/ Len(collected) >= max_results
    /\ result' = Slice(collected, max_results)
    /\ response' = IF caller = "app" THEN SuccessResponse(result') ELSE response
    /\ fpc' = "done"
    /\ UNCHANGED <<subreddits, feeds, caller, max_results, idx, collected, requests,
                   request>>
    /\ UNCHANGED <<migVars, parseVars, filterVars, watchVars>>

\* the migration part at rest
MigIdle ==
    /\ db = FullStore
    /\ snap = FullStore
    /\ inTxn = FALSE
    /\ todo = <<>>
    /\ steps = <<>>
    /\ invoker = "app"
    /\ phase = "ready"
    /\ seen = CURRENT_VERSION
    /\ fails = 0
    /\ restarts = 0
    /\ stepName = "none"
    /\ stepState = "none"
    /\ stepBegin = FullStore
    /\ runBegin = FullStore
    /\ ran = <<>>

(***************************************************************************)
(* _parse_feed on its own: two documents of one source are parsed.         *)
(***************************************************************************)
\* an entry with the given id, link, author name, updated and published elements
EntryWith(id, link, author, updated, published) ==
    [ title |-> <<"M", "S", "F", "T">>, summary |-> <<>>, id |-> id, link |-> link,
      author |-> author, updated |-> updated, published |-> published ]

ParsedEntries ==
    { EntryWith(Elem(<< "post_1" >>), NoElem, Author("u1"),
                TimeElem(Timestamp("2024-01-01T10:00:00", "Z")), NoTimeElem),
      EntryWith(Elem(<< "https:", "", "www.reddit.com", "r", "stocks", "comments", "abc", "" >>),
                NoElem, NoAuthor,
                TimeElem(Timestamp("2024-01-01T11:00:00", "")), NoTimeElem),
      EntryWith(Elem(<< "", "r", "stocks", "comments", "" >>), NoElem, EmptyAuthor,
                TimeElem(Unparsable("yesterday")), NoTimeElem),
      EntryWith(NoElem, NoElem, NoAuthor, NoTimeElem, NoTimeElem),
      EntryWith(NoElem, Elem(<< "", "r", "investing", "comments", "xyz", "my_title", "" >>),
                NoAuthor,
                EmptyTimeElem, TimeElem(Timestamp("2024-01-01T12:00:00", "+01:00"))),
      EntryWith(Elem(EmptyString), Elem(<< "", "r", "stocks", "comments", "q1", "" >>),
                NoAuthor,
                NoTimeElem, TimeElem(Timestamp("2024-01-01T13:00:00", ""))) }

RECURSIVE SeqsUpTo(_, _)
\* the sequences over set of length at most n
SeqsUpTo(set, n) ==
    IF n = 0 THEN { <<>> }
    ELSE SeqsUpTo(set, n - 1)
         \cup { Append(q, x) : q \in { r \in SeqsUpTo(set, n - 1) : Len(r) = n - 1 }, x \in set }

ParsedDocuments ==
    { Document(entries) : entries \in SeqsUpTo(ParsedEntries, MaxEntries) }
    \cup { MalformedDocument, UnknownEncodingDocument }

\* what the clock reads when the process starts
ClockStart == 100

ParseIdle ==
    /\ psub = "stocks"
    /\ pdocs = <<>>
    /\ pout = <<>>
    /\ ppc = 0
    /\ praised = <<>>
    /\ pnow = ClockStart

ParseInit ==
    /\ psub \in {"stocks", "investing"}
    /\ pdocs \in ParsedDocuments \X ParsedDocuments
    /\ pout = <<>>
    /\ ppc = 0
    /\ praised = <<>>
    /\ pnow = ClockStart

\* _parse_feed(content, subreddit) for the first document
ParseFirst ==
    /\ ppc = 0
    /\ praised' = << ParseFeedRaises(pdocs[1]) >>
    /\ pout' = << IF ParseFeedRaises(pdocs[1]) THEN <<>> ELSE _parse_feed(pdocs[1], psub) >>
    /\ ppc' = 1
    /\ pnow' = pnow + 1
    /\ UNCHANGED <<psub, pdocs>>
    /\ UNCHANGED <<migVars, fetchVars, filterVars, watchVars>>

\* _parse_feed(content, subreddit) for the second document
ParseSecond ==
    /\ ppc = 1
    /\ praised' = Append(praised, ParseFeedRaises(pdocs[2]))
    /\ pout' = Append(pout, IF ParseFeedRaises(pdocs[2]) THEN <<>>
                            ELSE _parse_feed(pdocs[2], psub))
    /\ ppc' = 2
    /\ pnow' = pnow + 1
    /\ UNCHANGED <<psub, pdocs>>
    /\ UNCHANGED <<migVars, fetchVars, filterVars, watchVars>>

(***************************************************************************)
(* _should_filter_post on its own: one post is evaluated repeatedly.       *)
(***************************************************************************)
\* how many times the post is evaluated
MaxEvaluations == 2

FilterTitles ==
    { <<"D", "a", "i", "l", "y", " ", "D", "i", "s", "c", "u", "s", "s", "i", "o", "n", " ", "T", "h", "r", "e", "a", "d", " ", "-", " ", "J", "a", "n", " ", "1">>,
      <<"A", "A", "P", "L", " ", "e", "a", "r", "n", "i", "n", "g", "s", " ", "b", "e", "a", "t", " ", "e", "s", "t", "i", "m", "a", "t", "e", "s">>,
      <<"I", " ", "t", "h", "i", "n", "k", " ", "y", "o", "u", " ", "s", "h", "o", "u", "l", "d">>,
      <<"R", "e", "s", "u">>,
      <<"d", "a", "i", "l", "y", "\n", "d", "i", "s", "c", "u", "s", "s", "i", "o", "n">> }

FilterBodies ==
    { <<>>,
      <<"m", "e", " ", "t", "o", "o">>,
      <<"I", " ", "s", "o", "l", "d">>,
      <<"D", "a", "i", "l", "y", " ", "D", "i", "s", "c", "u", "s", "s", "i", "o", "n">>,
      <<"m", "y", " ", "C", "a", "r", "e", "e", "r", " ", "A", "d", "v", "i", "c", "e">>,
      <<"B", "U", "Y", " ", "N", "O", "W">> }

NoPost == [title |-> <<>>, text |-> <<>>]

FilterIdle ==
    /\ filter_patterns = DefaultFilterPatterns
    /\ fpost = NoPost
    /\ fdecisions = <<>>

FilterInit ==
    /\ filter_patterns \in FilterConfigurations
    /\ fpost \in [title : FilterTitles, text : FilterBodies]
    /\ fdecisions = <<>>

\* the post evaluated with rules and post changed by the evaluation
Mutant_FilterEvaluate_Consuming ==
    /\ Len(fdecisions) < MaxEvaluations
    /\ fdecisions' = Append(fdecisions, _should_filter_post(fpost.title, fpost.text))
    /\ filter_patterns' = IF _should_filter_post(fpost.title, fpost.text)
                          THEN [exclude_titles |-> <<>>, exclude_keywords |-> <<>>]
                          ELSE filter_patterns
    /\ UNCHANGED fpost
    /\ UNCHANGED <<migVars, fetchVars, parseVars, watchVars>>

\* self._should_filter_post(title, text) (reddit_rss_client.py:55-80): the
\* method reads self.filter_patterns and its arguments and assigns only locals
FilterEvaluate ==
    /\ Len(fdecisions) < MaxEvaluations
    /\ fdecisions' = Append(fdecisions, _should_filter_post(fpost.title, fpost.text))
    /\ UNCHANGED <<filter_patterns, fpost>>
    /\ UNCHANGED <<migVars, fetchVars, parseVars, watchVars>>

(***************************************************************************)
(* watchlist_repository.py: WatchlistRepository over the watchlist tables  *)
(* of the version-3 schema.  Every call opens a connection of its own;     *)
(* none of them executes PRAGMA foreign_keys, so the connection enforces   *)
(* foreign keys only if the SQLite library was built to do so by default.  *)
(***************************************************************************)
\* how many watchlists are created
MaxWatchlists == 2

\* str.upper, one character
UpperChar(c) ==
    IF \E i \in DOMAIN LowerCase : LowerCase[i] = c
    THEN UpperCase[CHOOSE i \in DOMAIN LowerCase : LowerCase[i] = c]
    ELSE c

\* str.upper
Upper(t) == [i \in DOMAIN t |-> UpperChar(t[i])]

\* the tickers and watchlist ids the callers name
WatchTickers == { <<"A", "A", "P", "L">>, <<"a", "a", "p", "l">>, <<"M", "S", "F", "T">> }
WatchlistIds == 1..MaxWatchlists

NoCall == [op |-> "none", id |-> 0, ret |-> FALSE]

WatchIdle ==
    /\ foreign_keys = FALSE
    /\ watchlists = {}
    /\ watchlist_tickers = {}
    /\ sqlite_sequence = 0
    /\ wop = NoCall

WatchInit ==
    /\ foreign_keys \in BOOLEAN
    /\ watchlists = {}
    /\ watchlist_tickers = {}
    /\ sqlite_sequence = 0
    /\ wop = NoCall

\* the junction rows ON DELETE CASCADE removes with watchlist id, when the
\* connection enforces foreign keys
Cascade(rows, id) == IF foreign_keys THEN { r \in rows : r[1] # id } ELSE rows

\* watchlist_repository.py:31-47: INSERT INTO watchlists; AUTOINCREMENT gives
\* an id above every id given before
create_watchlist ==
    /\ sqlite_sequence < MaxWatchlists
    /\ sqlite_sequence' = sqlite_sequence + 1
    /\ watchlists' = watchlists \cup { sqlite_sequence + 1 }
    /\ wop' = [op |-> "create_watchlist", id |-> sqlite_sequence + 1, ret |-> TRUE]
    /\ UNCHANGED <<foreign_keys, watchlist_tickers>>
    /\ UNCHANGED <<migVars, fetchVars, parseVars, filterVars>>

\* watchlist_repository.py:123-137: DELETE FROM watchlists WHERE id = ?
delete_watchlist ==
    \E id \in WatchlistIds :
        /\ watchlists' = watchlists \ { id }
        /\ watchlist_tickers' = IF id \in watchlists THEN Cascade(watchlist_tickers, id)
                                ELSE watchlist_tickers
        /\ wop' = [op |-> "delete_watchlist", id |-> id, ret |-> id \in watchlists]
        /\ UNCHANGED <<foreign_keys, sqlite_sequence>>
        /\ UNCHANGED <<migVars, fetchVars, parseVars, filterVars>>

\* watchlist_repository.py:156-184: INSERT INTO watchlist_tickers; an
\* IntegrityError (the row exists, or the foreign key is enforced and the
\* watchlist does not exist) is answered with False
add_ticker_to_watchlist ==
    \E id \in WatchlistIds, ticker \in WatchTickers :
        LET row == << id, Upper(ticker) >>
            integrity_error == row \in watchlist_tickers
                                   \/ (foreign_keys /\ id \notin watchlists)
        IN  /\ watchlist_tickers' = IF integrity_error THEN watchlist_tickers
                                    ELSE watchlist_tickers \cup { row }
            /\ wop' = [op |-> "add_ticker_to_watchlist", id |-> id, ret |-> ~integrity_error]
            /\ UNCHANGED <<foreign_keys, watchlists, sqlite_sequence>>
            /\ UNCHANGED <<migVars, fetchVars, parseVars, filterVars>>

\* watchlist_repository.py:186-202: DELETE FROM watchlist_tickers
remove_ticker_from_watchlist ==
    \E id \in WatchlistIds, ticker \in WatchTickers :
        LET row == << id, Upper(ticker) >> IN
            /\ watchlist_tickers' = watchlist_tickers \ { row }
            /\ wop' = [op |-> "remove_ticker_from_watchlist", id |-> id,
                       ret |-> row \in watchlist_tickers]
            /\ UNCHANGED <<foreign_keys, watchlists, sqlite_sequence>>
            /\ UNCHANGED <<migVars, fetchVars, parseVars, filterVars>>

(***************************************************************************)
(* Specifications.                                                         *)
(***************************************************************************)
\* the migration: start-up, run_migrations, failures and restarts
Init ==
    /\ MigInit
    /\ subreddits = <<>>
    /\ feeds = <<>>
    /\ FetchIdle
    /\ ParseIdle
    /\ FilterIdle
    /\ WatchIdle

Next == MigNext

Spec == Init /\ [][Next]_vars

\* the feed client and the fetch-posts handler of a started process
InitFetch == MigIdle /\ FetchInit /\ ParseIdle /\ FilterIdle /\ WatchIdle

NextFetch ==
    \/ ClientCall
    \/ HandlerRequest
    \/ FetchSource
    \/ FetchReturn

SpecFetch == InitFetch /\ [][NextFetch]_vars

\* _parse_feed applied to two documents
InitParse ==
    /\ MigIdle
    /\ subreddits = <<>>
    /\ feeds = <<>>
    /\ FetchIdle
    /\ ParseInit
    /\ FilterIdle
    /\ WatchIdle

NextParse ==
    \/ ParseFirst
    \/ ParseSecond

SpecParse == InitParse /\ [][NextParse]_vars

\* _should_filter_post evaluated on one post
InitFilter ==
    /\ MigIdle
    /\ subreddits = <<>>
    /\ feeds = <<>>
    /\ FetchIdle
    /\ ParseIdle
    /\ FilterInit
    /\ WatchIdle

NextFilter == FilterEvaluate

SpecFilter == InitFilter /\ [][NextFilter]_vars

\* the watchlist repository of a started process
InitWatch ==
    /\ MigIdle
    /\ subreddits = <<>>
    /\ feeds = <<>>
    /\ FetchIdle
    /\ ParseIdle
    /\ FilterIdle
    /\ WatchInit

NextWatch ==
    \/ create_watchlist
    \/ delete_watchlist
    \/ add_ticker_to_watchlist
    \/ remove_ticker_from_watchlist

SpecWatch == InitWatch /\ [][NextWatch]_vars

(***************************************************************************)
(* Claims about the migration.                                             *)
(***************************************************************************)
\* statements of the step in progress that have not yet been executed
StepStatementsLeft ==
    \/ \E i \in DOMAIN todo : todo[i].op \in {"create_table", "create_index", "add_column"}
    \/ phase = "between" /\ steps # <<>> /\ ~Head(steps).first

\* C3: every migration step is all-or-nothing: while structural statements of
\* the step remain the persisted version is the one the step began with, and
\* after a statement of the step failed the persisted store (version and
\* schema) is exactly the store the step began with.
C3_StepAllOrNothing ==
    /\ (stepState = "running" /\ StepStatementsLeft
            => get_current_version(Persisted) = get_current_version(stepBegin))
    /\ (stepState = "failed" => Persisted = stepBegin)

\* C4: a call of run_migrations in which no statement fails ends with version 3
\* when it read 0, 1 or 2, having run 0->3 directly, 1->2 then 2->3, or 2->3
\* alone; when it read 3 it changes nothing; and until it ends it can always
\* take its next step.
C4_RunReachesCurrent ==
    /\ (phase \in {"ready", "returned"} /\ ran # <<>> =>
           /\ seen \in {0, 1, 2}
           /\ get_current_version(db) = 3
           /\ ~inTxn
           /\ ran = CASE seen = 0 -> <<"_create_base_schema", "_create_v3_schema">>
                      [] seen = 1 -> <<"_migrate_v1_to_v2", "_migrate_v2_to_v3">>
                      [] seen = 2 -> <<"_migrate_v2_to_v3">>)
    /\ (phase \in {"ready", "returned"} /\ seen \in {0, 1, 2} => ran # <<>>)
    /\ (phase \in {"ready", "returned"} /\ seen = 3 => db = runBegin /\ ran = <<>>)
    /\ (phase \in {"between", "block"} =>
           ENABLED (OpenBlock \/ Execute \/ Commit \/ Return) \/ Raises(db, Head(todo)))

\* a run that read version 1 has returned without a failure, at version 3
C4_Witness ==
    /\ phase = "returned" /\ seen = 1 /\ get_current_version(db) = 3
    /\ ran = <<"_migrate_v1_to_v2", "_migrate_v2_to_v3">>

\* C5: with a persisted version other than 0, 1, 2 or 3 the start-up ends in a
\* fatal error and never goes on to initialise the components.
C5_UnknownVersionIsFatal ==
    invoker = "app" /\ UnknownVersion(get_current_version(db)) =>
        /\ phase # "ready"
        /\ (phase = "boot" \/ phase = "run" \/ phase = "fatal")

\* C6: 1->3 applied to a version-1 store gives the schema that 0->3 gives on a
\* fresh store.
C6_MigrationEquivalence ==
    phase \in {"ready", "returned"} /\ seen = 1 /\ ran # <<>>
        => SchemaOf(db) = SchemaOf(FullStore)

\* C7: the persisted version never decreases, whatever fails and is retried.
C7_VersionMonotone ==
    [][get_current_version(Persisted') >= get_current_version(Persisted)]_vars

\* a retried run has brought a store to version 3 after an earlier failure
C7_Witness ==
    /\ fails > 0 /\ restarts > 0 /\ Stopped
    /\ get_current_version(Persisted) = 3 /\ get_current_version(runBegin) < 3

(***************************************************************************)
(* Claims about fetch_posts.                                               *)
(***************************************************************************)
\* the sources fetch_posts goes through
Sources == { SourceList(subreddits)[k] : k \in DOMAIN SourceList(subreddits) }

\* the answer of source sub holds an entry that passes the content filter
YieldsKept(sub) ==
    /\ ~Failed(feeds[sub])
    /\ \E k \in DOMAIN _parse_feed(feeds[sub].content, sub) :
           ~_should_filter_post(_parse_feed(feeds[sub].content, sub)[k].title,
                                _parse_feed(feeds[sub].content, sub)[k].text)

\* one source fails while another yields an entry that passes the filter
OneFailsOneYields ==
    \E s \in Sources, t \in Sources : s # t /\ Failed(feeds[s]) /\ YieldsKept(t)

\* an ingestion request with valid parameters has been answered
Ingested ==
    /\ fpc = "done" /\ caller = "app"
    /\ ~DateIsInvalid(request.start_date) /\ ~DateIsInvalid(request.end_date)

\* C1: a source whose request fails is skipped and the fetch goes on with the
\* remaining sources (every source is requested unless the cap was reached
\* first), and when one source fails while another yields an entry that passes
\* the filter the ingestion answers with count > 0.
C1_PartialFailureTolerance ==
    /\ (fpc = "done" /\ caller = "direct" /\ max_results > 0 =>
            Len(requests) = Len(SourceList(subreddits)) \/ Len(result) >= max_results)
    /\ (Ingested /\ OneFailsOneYields => response.code = "ok" /\ response.count > 0)

\* what fetch_posts itself does when one source fails and another yields: it
\* returns posts to its caller
ClientSkipsFailedSource ==
    fpc = "done" /\ caller = "direct" /\ max_results > 0 /\ OneFailsOneYields
        => Len(result) > 0

\* C8: every request carries the limit max(1, min(50, floor(R / N) + 1)), N
\* being the number of sources fetch_posts goes through.
C8_PerSourceLimit ==
    max_results > 0 =>
        \A k \in DOMAIN requests :
            requests[k].limit
                = Max(1, Min(50, (max_results \div Len(SourceList(subreddits))) + 1))

\* C9: fetch_posts returns at most R posts, each one a post the content filter
\* includes, whatever the sources answer.
C9_AtMostCapAllIncluded ==
    /\ (fpc = "loop" => Len(collected) <= max_results)
    /\ (fpc = "done" /\ max_results >= 1 =>
            /\ Len(result) <= max_results
            /\ \A k \in DOMAIN result :
                   ~_should_filter_post(result[k].title, result[k].text))

\* fetch_posts has returned exactly R posts although the sources it asked
\* held an entry the filter excludes and more than R entries in all
C9_Witness ==
    /\ fpc = "done" /\ caller = "direct" /\ max_results >= 1
    /\ Len(result) = max_results
    /\ \E k \in DOMAIN requests :
          /\ ~Failed(feeds[requests[k].sub])
          /\ Len(feeds[requests[k].sub].content.entries) > max_results
          /\ \E e \in DOMAIN feeds[requests[k].sub].content.entries :
                 _should_filter_post(
                     TitleOf(feeds[requests[k].sub].content.entries[e]),
                     TextOf(feeds[requests[k].sub].content.entries[e]))

(***************************************************************************)
(* Claims about _parse_feed.                                               *)
(***************************************************************************)
\* the raw id of the entry has a part that is not empty and not a generic marker
HasQualifyingPart(e, sub) ==
    \E k \in DOMAIN RawId(e) : RawId(e)[k] \notin {"", "comments", "r", sub}

\* entry i of the first document is entry j of the second
SameEntry(i, j) ==
    /\ i \in DOMAIN pdocs[1].entries /\ j \in DOMAIN pdocs[2].entries
    /\ pdocs[1].entries[i] = pdocs[2].entries[j]

\* C10 (as claimed): the same raw entry gets the same post id in both parses,
\* whatever its position and its neighbours.
C10_IdStableAnywhere ==
    ppc = 2 /\ pdocs[1].wellformed /\ pdocs[2].wellformed =>
        \A i \in DOMAIN pout[1], j \in DOMAIN pout[2] :
            SameEntry(i, j) => pout[1][i].id = pout[2][j].id

\* C10 (amended): the same raw entry gets the same post id in both parses when
\* its raw id has a qualifying part or it stands at the same position.
C10_IdStable ==
    ppc = 2 /\ pdocs[1].wellformed /\ pdocs[2].wellformed =>
        \A i \in DOMAIN pout[1], j \in DOMAIN pout[2] :
            SameEntry(i, j) /\ (HasQualifyingPart(pdocs[1].entries[i], psub) \/ i = j)
                => pout[1][i].id = pout[2][j].id

\* an entry with a native id was parsed at two different positions, beside
\* different entries, and got the same id
C10_Witness ==
    /\ ppc = 2
    /\ \E i \in DOMAIN pout[1], j \in DOMAIN pout[2] :
          /\ i # j /\ SameEntry(i, j)
          /\ HasQualifyingPart(pdocs[1].entries[i], psub)
          /\ pdocs[1].entries # pdocs[2].entries
          /\ pout[1][i].id = pout[2][j].id

(***************************************************************************)
(* Claims about _should_filter_post.                                       *)
(***************************************************************************)
\* some configured title pattern matches the title, letter case ignored
TitlePatternMatches(title) ==
    \E i \in DOMAIN filter_patterns.exclude_titles :
        ReSearch(filter_patterns.exclude_titles[i], title)

\* some configured keyword is a substring of text, letter case ignored
KeywordOccurs(text) ==
    \E i \in DOMAIN filter_patterns.exclude_keywords :
        Contains(Lower(text), Lower(filter_patterns.exclude_keywords[i]))

DailyDiscussionTitle == <<"D", "a", "i", "l", "y", " ", "D", "i", "s", "c", "u", "s", "s", "i", "o", "n", " ", "T", "h", "r", "e", "a", "d", " ", "-", " ", "J", "a", "n", " ", "1">>
EarningsTitle == <<"A", "A", "P", "L", " ", "e", "a", "r", "n", "i", "n", "g", "s", " ", "b", "e", "a", "t", " ", "e", "s", "t", "i", "m", "a", "t", "e", "s">>

\* C11 (as claimed): the post is excluded exactly when a title pattern matches
\* the title or a keyword is a substring of the title followed directly by the
\* body.
C11_ExcludedIffPlainConcatenation ==
    \A k \in DOMAIN fdecisions :
        fdecisions[k] = (TitlePatternMatches(fpost.title)
                            \/ KeywordOccurs(fpost.title \o fpost.text))

\* C11 (amended): the post is excluded exactly when a title pattern matches
\* the title alone or a keyword is a substring of title, one space and body
\* joined in this order; so under the default rules the title "Daily
\* Discussion Thread - Jan 1" is excluded for every body, and a post matching
\* no pattern and no keyword is included.
C11_ExcludedIffSpaceJoined ==
    \A k \in DOMAIN fdecisions :
        /\ fdecisions[k] = (TitlePatternMatches(fpost.title)
                               \/ KeywordOccurs(fpost.title \o << " " >> \o fpost.text))
        /\ (filter_patterns = DefaultFilterPatterns /\ fpost.title = DailyDiscussionTitle
                => fdecisions[k])
        /\ (~TitlePatternMatches(fpost.title)
             /\ ~KeywordOccurs(fpost.title) /\ ~KeywordOccurs(fpost.text)
             /\ ~KeywordOccurs(fpost.title \o << " " >> \o fpost.text)
                => ~fdecisions[k])

\* a post whose body, not its title, matches a title pattern was evaluated
\* under the default rules and included
C11_Witness ==
    /\ fdecisions # <<>>
    /\ filter_patterns = DefaultFilterPatterns
    /\ fpost.title = EarningsTitle
    /\ \E i \in DOMAIN exclude_titles : ReSearch(exclude_titles[i], fpost.text)
    /\ ~fdecisions[1]

OnRequestedDay == { "2024-01-01T10:00:00+00:00" }

\* the answer of source sub holds an entry of the requested day that passes
\* the content filter
YieldsKeptInRange(sub) ==
    /\ ~Failed(feeds[sub])
    /\ \E k \in DOMAIN _parse_feed(feeds[sub].content, sub) :
           /\ KeepPost(_parse_feed(feeds[sub].content, sub)[k])
           /\ _parse_feed(feeds[sub].content, sub)[k].created_at \in OnRequestedDay

\* C14: an ingestion request with the date range [2024-01-01, 2024-01-01], or
\* with this start and no end, is answered with the posts inside the range:
\* when the first source yields a filtered-in post of that day the answer is a
\* success that counts it.
C14_DateRangeReturnsInside ==
    /\ Ingested
    /\ request.start_date = "2024-01-01"
    /\ YieldsKeptInRange(SourceList(subreddits)[1])
    => response.code = "ok" /\ response.count > 0

\* C17: a request whose max_results is no number is answered with a
\* validation error, and no cap is substituted for it.
C17_InvalidCapIsValidationError ==
    caller = "app" /\ fpc = "done" /\ ~ParseInt(request.max_results).ok
        => response.code = "INVALID_PARAM" /\ max_results # DefaultMaxResults

\* the cap the caller asked for: the argument of a direct call, the
\* max_results parameter of a request
RequestedCap ==
    IF caller = "app" THEN ParseInt(request.max_results).value ELSE max_results

C15_ParseNeverRaises ==
    \A k \in DOMAIN praised :
        /\ ~praised[k]
        /\ (~pdocs[k].wellformed => pout[k] = <<>>)

\* the texts isoformat gives and the zone labels
Timestamps == { "2024-01-01T10:00:00+00:00", "2024-01-01T11:00:00+00:00",
               "2024-01-01T12:00:00+01:00", "2024-01-01T13:00:00+00:00" }

\* what the clock read at the parse of document k
ClockAt(k) == ClockText(ClockStart + k - 1)

\* C16: every parsed post carries a timestamp and a zone label: an entry
\* whose timestamp has no offset is recorded as that time in UTC with zone
\* "UTC", an entry whose timestamp cannot be parsed or is missing is
\* recorded with the current UTC time and zone "UTC", and each document the
\* parser accepts gives one post per entry.
C16_TimestampFallback ==
    \A k \in DOMAIN pout :
        /\ (pdocs[k].wellformed => Len(pout[k]) = Len(pdocs[k].entries))
        /\ \A i \in DOMAIN pout[k] :
            LET e == pdocs[k].entries[i]
                ts == IF e.updated.elem /\ e.updated.text # NoText THEN e.updated.text
                      ELSE e.published.text
            IN  /\ pout[k][i].created_at \in Timestamps \cup { ClockAt(k) }
                /\ pout[k][i].timezone # ""
                /\ (ts.iso /\ ts.offset = ""
                       => /\ pout[k][i].created_at = ts.local \o "+00:00"
                          /\ pout[k][i].timezone = "UTC")
                /\ (~ts.iso
                       => /\ pout[k][i].created_at = ClockAt(k)
                          /\ pout[k][i].timezone = "UTC")

\* one parse gave a post from a timestamp without offset, the other a post
\* from an entry whose timestamp cannot be parsed
C16_Witness ==
    /\ ppc = 2
    /\ \E i \in DOMAIN pout[1] :
          /\ pdocs[1].entries[i].updated.text = Timestamp("2024-01-01T11:00:00", "")
          /\ pout[1][i].created_at = "2024-01-01T11:00:00+00:00"
    /\ \E j \in DOMAIN pout[2] :
          /\ pdocs[2].entries[j].updated.text = Unparsable("yesterday")
          /\ pout[2][j].created_at = ClockAt(2)

(***************************************************************************)
(* Claims about the watchlist repository.                                  *)
(***************************************************************************)
\* C19: after delete_watchlist(id) has returned true no row of
\* watchlist_tickers refers to watchlist id.
C19_DeleteCascades ==
    wop.op = "delete_watchlist" /\ wop.ret
        => \A r \in watchlist_tickers : r[1] # wop.id

(***************************************************************************)
(* Claims about retried migrations.                                        *)
(***************************************************************************)
\* names of the tables and indexes of a store
TableNames(d) == { t[1] : t \in d.tables }
IndexNames(d) == { i[1] : i \in d.indexes }

\* C20: a run of run_migrations that follows a run in which a statement
\* failed completes without an error of its own and leaves the persisted
\* version 3 with every table and index of the version-3 schema.
C20_RetryConverges ==
    /\ (restarts > 0 /\ fails > 0 /\ phase = "block" /\ todo # <<>>
            => ~Raises(db, Head(todo)))
    /\ (restarts > 0 /\ fails > 0 /\ phase \in {"ready", "returned"}
            => /\ get_current_version(Persisted) = 3
               /\ TableNames(Persisted) = TableNames(FullStore)
               /\ IndexNames(Persisted) = IndexNames(FullStore))

(***************************************************************************)
(* Claims about the version record and the 2->3 step.                      *)
(***************************************************************************)
EnrichedTables ==
    {"tickers", "industries", "sectors", "post_tickers", "post_industries", "post_sectors"}
WatchlistTables == {"watchlists", "watchlist_tickers"}
WatchlistIndexes == {"idx_watchlist_tickers_watchlist", "idx_watchlist_tickers_ticker"}

\* C21: in every committed state the version describes the schema present:
\* version 3 implies the watchlist tables exist, version >= 2 implies the
\* ticker, industry, sector and junction tables exist.
C21_VersionDescribesSchema ==
    /\ (get_current_version(Persisted) = 3 => WatchlistTables \subseteq TableNames(Persisted))
    /\ (get_current_version(Persisted) >= 2 => EnrichedTables \subseteq TableNames(Persisted))

\* C28: the step 2->3 leaves every table (with its columns) and every index
\* that existed when it began as it was, adds nothing but the two watchlist
\* tables and their two indexes, and once done has set the version to 3.
C28_StepTwoToThreeFrame ==
    stepName = "2->3" =>
        /\ stepBegin.tables \subseteq db.tables
        /\ stepBegin.indexes \subseteq db.indexes
        /\ TableNames(db) \ TableNames(stepBegin) \subseteq WatchlistTables
        /\ IndexNames(db) \ IndexNames(stepBegin) \subseteq WatchlistIndexes
        /\ Len(db.rows) = Len(stepBegin.rows)
        /\ (stepState = "done" =>
               /\ get_current_version(Persisted) = 3
               /\ WatchlistTables \subseteq TableNames(Persisted)
               /\ WatchlistIndexes \subseteq IndexNames(Persisted))

\* the step 2->3 is done on a store that began it at version 2 with the
\* enriched tables and without the watchlist tables
C28_Witness ==
    /\ stepName = "2->3" /\ stepState = "done"
    /\ get_current_version(stepBegin) = 2
    /\ EnrichedTables \subseteq TableNames(stepBegin)
    /\ TableNames(stepBegin) \cap WatchlistTables = {}
    /\ WatchlistTables \subseteq TableNames(db)
    /\ stepBegin.tables \subseteq db.tables

\* C29: the version table never holds more than one row, in the connection's
\* view and as committed, whatever fails and is retried, and a run that finds
\* it without a row reads version 0.
C29_VersionSingleton ==
    /\ Len(db.rows) <= 1
    /\ Len(Persisted.rows) <= 1
    /\ (phase \notin {"boot", "run"} /\ runBegin.rows = <<>> => seen = 0)

\* a retried run has read version 0 from a version table left without a row
C29_Witness ==
    /\ restarts > 0 /\ phase = "between" /\ ran = <<>>
    /\ HasTable(runBegin, VERSION_TABLE) /\ runBegin.rows = <<>>
    /\ seen = 0

(***************************************************************************)
(* Claims about the start-up.                                              *)
(***************************************************************************)
\* C24: an ingestion request can be handled only when the start-up is through
\* with the migration (no step pending, nothing uncommitted, the store not
\* below version 3); the version is read only while the process starts; and
\* no migration function runs twice in one process.
C24_MigrationBeforeIngestion ==
    /\ [](invoker = "app" /\ ENABLED HandlerRequest
             => /\ phase = "ready" /\ steps = <<>> /\ todo = <<>> /\ ~inTxn
                /\ ~needs_migration(Persisted)
                /\ (seen < CURRENT_VERSION => ran # <<>>))
    /\ [](invoker = "app"
             => \A i \in DOMAIN ran, j \in DOMAIN ran : i # j => ran[i] # ran[j])
    /\ [][seen' # seen => phase \in {"boot", "run"}]_vars

\* the process has started on a legacy store, migrated it, and can now handle
\* an ingestion request
C24_Witness ==
    /\ invoker = "app" /\ phase = "ready" /\ seen = 1
    /\ ran = <<"_migrate_v1_to_v2", "_migrate_v2_to_v3">>
    /\ ENABLED HandlerRequest

(***************************************************************************)
(* Claims about the early exit of fetch_posts.                             *)
(***************************************************************************)
\* C23: fetch_posts sends a request only while fewer than cap posts have
\* been accumulated, the sources are requested in the order of the list, and
\* a source is left out only because the cap had been reached.
C23_EarlyExit ==
    /\ [][requests' # requests => Len(collected) < max_results]_vars
    /\ [](\A k \in DOMAIN requests : requests[k].sub = SourceList(subreddits)[k])
    /\ [](fpc = "done" /\ caller = "direct" /\ max_results > 0
             /\ Len(requests) < Len(SourceList(subreddits))
                => Len(result) = max_results)

\* fetch_posts returned after the first source had filled the cap, leaving
\* out a second source that had a post to give
C23_Witness ==
    /\ fpc = "done" /\ caller = "direct"
    /\ Len(SourceList(subreddits)) = 2 /\ Len(requests) = 1
    /\ Len(result) = max_results
    /\ YieldsKept(SourceList(subreddits)[2])

(***************************************************************************)
(* Claims about the id and the author of a parsed post.                    *)
(***************************************************************************)
GenericMarkers(sub) == {"comments", "r", sub}

\* the segments the id is taken from: those of the native id, or of the URL
\* when the entry has no id element
IdSegments(e) == IF e.id.elem THEN e.id.segs ELSE IF e.link.elem THEN e.link.segs ELSE << "" >>

\* segment k of segs is the last one that is non-empty and no generic marker
IsLastQualifying(segs, k, sub) ==
    /\ segs[k] # "" /\ segs[k] \notin GenericMarkers(sub)
    /\ \A m \in DOMAIN segs : m > k => segs[m] = "" \/ segs[m] \in GenericMarkers(sub)

\* the placeholders of a batch of n posts
Placeholders(n) == { "post_" \o Str(m) : m \in 0..(n - 1) }

\* C25: the post id is "reddit_" followed by the last non-empty segment of
\* the native id (of the URL when there is no id element) that is no generic
\* marker, and by the positional placeholder when no segment qualifies.
C25_IdDerivation ==
    \A k \in DOMAIN pout : \A i \in DOMAIN pout[k] :
        LET e == pdocs[k].entries[i]
            segs == IdSegments(e)
        IN  /\ pout[k][i].id = "reddit_" \o pout[k][i].reddit_id
            /\ \A s \in DOMAIN segs :
                   IsLastQualifying(segs, s, psub) => pout[k][i].reddit_id = segs[s]
            /\ ((\A s \in DOMAIN segs : ~IsLastQualifying(segs, s, psub))
                   => pout[k][i].reddit_id = "post_" \o Str(i - 1))

\* one document gave an id from a native id with several segments, one from
\* a URL, and a placeholder for an entry whose id element is empty
C25_Witness ==
    /\ ppc = 2
    /\ \E i \in DOMAIN pout[1] : pout[1][i].id = "reddit_abc"
    /\ \E j \in DOMAIN pout[2], i \in DOMAIN pout[2] :
          /\ pout[2][j].id = "reddit_my_title"
          /\ pdocs[2].entries[i].id = Elem(EmptyString)
          /\ pdocs[2].entries[i].link.elem
          /\ pout[2][i].reddit_id \in Placeholders(Len(pout[2]))

\* the post at position i of document k got a placeholder for an id
IsPlaceholder(k, i) ==
    \A s \in DOMAIN IdSegments(pdocs[k].entries[i]) :
        ~IsLastQualifying(IdSegments(pdocs[k].entries[i]), s, psub)

\* C26: within one call a post with a placeholder id has an id that no other
\* post of the call has.
C26_PlaceholderUnique ==
    \A k \in DOMAIN pout : \A i \in DOMAIN pout[k], j \in DOMAIN pout[k] :
        i # j /\ IsPlaceholder(k, i) => pout[k][i].id # pout[k][j].id

\* C30: every parsed post has a non-empty author, "unknown" when the entry
\* has no author name element or one without text.
C30_AuthorNeverEmpty ==
    \A k \in DOMAIN pout : \A i \in DOMAIN pout[k] :
        /\ pout[k][i].author \notin {"", "None"}
        /\ (pdocs[k].entries[i].author \in {NoAuthor, EmptyAuthor}
               => pout[k][i].author = "unknown")

=============================================================================
